---- MODULE Spec2Model ----
(***************************************************************************)
(* Model of the 8086 MOV decoder of                                        *)
(* 01-8086-simulator/cmd/02-multi-instruction-decoder.go.                  *)
(*                                                                         *)
(* One decode session (one call of Decode) is a state machine: the         *)
(* variables are the fields of DecoderParams and the locals of Decode's    *)
(* loop, and there is one action per DecoderState function.  An action is  *)
(* one iteration of the loop of Decode: the call of the state function,    *)
(* the assignment of its results and the panic(err) / loop exit that       *)
(* follows it.  calls holds what a caller keeps of the calls of Decode it   *)
(* made before the current one.                                            *)
(***************************************************************************)
EXTENDS Integers, Sequences, FiniteSets, TLC

VARIABLES Data, Pointer, DecodedInstructions, state, err, pc, panicValue,
          calls

vars == <<Data, Pointer, DecodedInstructions, state, err, pc, panicValue,
          calls>>

(***************************************************************************)
(* Bounds of the model.                                                    *)
(***************************************************************************)
\* longest buffer built from SampleBytes
MaxLen == 5

\* longest buffer a caller joins with another one
MaxPart == 3

\* all values of a Go byte
Byte == 0..255

\* bytes the long buffers are built from: a register/memory move
\* (139 = 10001011), immediate moves (176 = 10110000, 184 = 10111000),
\* second bytes of every mode (0: mode 00; 70: mode 01; 134: mode 10;
\* 217: mode 11), which are unknown opcodes when met as a first byte
SampleBytes == {0, 70, 134, 139, 176, 184, 217}

\* first bytes of the two supported opcode classes: 100010dw and 1011wreg
MoveBytes == (136..139) \cup (176..191)

\* bytes that follow a two-byte header; the last one is an instruction
\* (10110000, 7: an immediate move)
Tails == {<<>>, <<0>>, <<7>>, <<7, 1>>, <<176, 7>>}

SeqsOfLen(S, n) == [1..n -> S]

\* every buffer of at most MaxLen sample bytes
SampleBuffers == UNION {SeqsOfLen(SampleBytes, n) : n \in 0..MaxLen}

\* every supported first byte with every second byte, and a tail
HeaderBuffers ==
    {<<b1, b2>> \o t : b1 \in MoveBytes, b2 \in Byte, t \in Tails}

\* every first byte, alone and followed by a second byte
OpcodeBuffers ==
    {<<b1>> : b1 \in Byte} \cup {<<b1, b2>> : b1 \in Byte, b2 \in {0, 255}}

Buffers == SampleBuffers \cup HeaderBuffers \cup OpcodeBuffers

\* the buffers a caller decodes alone and joined
Parts == UNION {SeqsOfLen(SampleBytes, n) : n \in 0..MaxPart}

(***************************************************************************)
(* Go operators on bytes.                                                  *)
(***************************************************************************)
\* b >> k on an unsigned byte
Shr(b, k) == b \div (2 ^ k)

RECURSIVE BitAnd(_, _)
\* a & b
BitAnd(a, b) ==
    IF a = 0 \/ b = 0 THEN 0
    ELSE (IF (a % 2) = 1 /\ (b % 2) = 1 THEN 1 ELSE 0)
         + 2 * BitAnd(a \div 2, b \div 2)

RECURSIVE BitXor(_, _)
\* a ^ b
BitXor(a, b) ==
    IF a = 0 /\ b = 0 THEN 0
    ELSE (((a % 2) + (b % 2)) % 2) + 2 * BitXor(a \div 2, b \div 2)

\* the two bytes taken in the other order
BigEndianUint16_Swapped(b0, b1) == (b1 * 256 + b0) % 65536

\* binary.BigEndian.Uint16([]byte{b0, b1})
BigEndianUint16(b0, b1) == (b0 * 256 + b1) % 65536

RECURSIVE FormatBinary(_)
\* the verb %b of fmt on an unsigned value
FormatBinary(n) ==
    IF n < 2 THEN ToString(n)
    ELSE FormatBinary(n \div 2) \o ToString(n % 2)

\* the verb %d of fmt on an unsigned value
FormatDecimal(n) == ToString(n)

(***************************************************************************)
(* Lookup tables.                                                          *)
(***************************************************************************)
RegisterNames ==
    [r \in 0..7 |->
        CASE r = 0 -> [w \in 0..1 |-> IF w = 0 THEN "al" ELSE "ax"]
          [] r = 1 -> [w \in 0..1 |-> IF w = 0 THEN "cl" ELSE "cx"]
          [] r = 2 -> [w \in 0..1 |-> IF w = 0 THEN "dl" ELSE "dx"]
          [] r = 3 -> [w \in 0..1 |-> IF w = 0 THEN "bl" ELSE "bx"]
          [] r = 4 -> [w \in 0..1 |-> IF w = 0 THEN "ah" ELSE "sp"]
          [] r = 5 -> [w \in 0..1 |-> IF w = 0 THEN "ch" ELSE "bp"]
          [] r = 6 -> [w \in 0..1 |-> IF w = 0 THEN "dh" ELSE "si"]
          [] r = 7 -> [w \in 0..1 |-> IF w = 0 THEN "bh" ELSE "di"]]

MemoryEquations ==
    [m \in 0..7 |->
        CASE m = 0 -> "bx + si"
          [] m = 1 -> "bx + di"
          [] m = 2 -> "bp + si"
          [] m = 3 -> "bp + di"
          [] m = 4 -> "si"
          [] m = 5 -> "di"
          [] m = 6 -> "bp"
          [] m = 7 -> "bx"]

\* RegisterNames[reg][wideBit]: a Go map yields the zero value for a
\* missing key
RegisterName(reg, wideBit) ==
    IF reg \in DOMAIN RegisterNames /\ wideBit \in DOMAIN RegisterNames[reg]
    THEN RegisterNames[reg][wideBit]
    ELSE ""

\* MemoryEquations[rm]
MemoryEquation(rm) ==
    IF rm \in DOMAIN MemoryEquations THEN MemoryEquations[rm] ELSE ""

(***************************************************************************)
(* Errors and panics.                                                      *)
(***************************************************************************)
\* the nil error, and the absence of a panic
NilErr == "<nil>"

TrailingByteErr == "Trailing byte found"

\* the message built from the opcode bits instead of the whole byte
UnknownOpcodeErr_OpcodeBits(nextByte) ==
    "Unknown opcode: " \o FormatBinary(Shr(nextByte, 2))

UnknownOpcodeErr(nextByte) == "Unknown opcode: " \o FormatBinary(nextByte)

\* the run-time panic of an index expression params.Data[i] out of range
IndexOutOfRange(i) ==
    "runtime error: index out of range [" \o ToString(i)
        \o "] with length " \o ToString(Len(Data))

\* params.Data[i] is in range (Go indices start at 0)
InRange(i) == 0 <= i /\ i < Len(Data)

\* params.Data[i], for i in range
At(i) == Data[i + 1]

\* fmt.Sprintf("mov %s, %s", destName, srcName)
MovLine(destName, srcName) == "mov " \o destName \o ", " \o srcName

\* Resolved with the cursor left where it was
Resolved_NoAdvance(line, consumed) ==
    [fault |-> NilErr,
     DecodedInstructions |-> Append(DecodedInstructions, line),
     Pointer |-> Pointer]

\* Resolved with the cursor advanced one byte too far
Resolved_OneTooFar(line, consumed) ==
    [fault |-> NilErr,
     DecodedInstructions |-> Append(DecodedInstructions, line),
     Pointer |-> Pointer + consumed + 1]

\* the result of a resolver that ran to its end
Resolved(line, consumed) ==
    [fault |-> NilErr,
     DecodedInstructions |-> Append(DecodedInstructions, line),
     Pointer |-> Pointer + consumed]

\* the result of a resolver that panicked reading params.Data[i]: nothing
\* was assigned
Faulted(i) ==
    [fault |-> IndexOutOfRange(i),
     DecodedInstructions |-> DecodedInstructions,
     Pointer |-> Pointer]

(***************************************************************************)
(* Field extraction of RegAndRegOrMemState.                                *)
(***************************************************************************)
\* (byte1 >> 1) & 0b1
DestinationBit(byte1) == BitAnd(Shr(byte1, 1), 1)

\* (byte1 >> 0) & 0b1
WideBit(byte1) == BitAnd(Shr(byte1, 0), 1)

\* the mode taken one bit too low, with a three-bit mask
Mode_ThreeBits(byte2) == BitAnd(Shr(byte2, 5), 7)

\* (byte2 >> 6) & 0b11
Mode(byte2) == BitAnd(Shr(byte2, 6), 3)

\* the register id taken one bit too low
Reg_ShiftTwo(byte2) == BitAnd(Shr(byte2, 2), 7)

\* (byte2 >> 3) & 0b111
Reg(byte2) == BitAnd(Shr(byte2, 3), 7)

\* (byte2 >> 0) & 0b111
Rm(byte2) == BitAnd(Shr(byte2, 0), 7)

(***************************************************************************)
(* Variant resolvers.                                                      *)
(***************************************************************************)
\* MemoryMode with the width bit ignored: always the 8-bit register
MemoryMode_Narrow(destinationBit, wideBit, reg, rm) ==
    LET location1 == "[" \o MemoryEquation(rm) \o "]"
        location2 == RegisterName(reg, 0)
        destName == IF destinationBit = 1 THEN location2 ELSE location1
        srcName == IF destinationBit = 1 THEN location1 ELSE location2
    IN  Resolved(MovLine(destName, srcName), 2)

\* MemoryMode with r/m id 6 taken as a direct 16-bit address
MemoryMode_DirectAddress(destinationBit, wideBit, reg, rm) ==
    IF rm = 6 /\ ~InRange(Pointer + 3) THEN Faulted(Pointer + 3)
    ELSE
    LET location1 ==
            IF rm = 6
            THEN "[" \o FormatDecimal(BigEndianUint16(At(Pointer + 3),
                                                      At(Pointer + 2)))
                     \o "]"
            ELSE "[" \o MemoryEquation(rm) \o "]"
        location2 == RegisterName(reg, wideBit)
        destName == IF destinationBit = 1 THEN location2 ELSE location1
        srcName == IF destinationBit = 1 THEN location1 ELSE location2
    IN  Resolved(MovLine(destName, srcName), IF rm = 6 THEN 4 ELSE 2)

MemoryMode(destinationBit, wideBit, reg, rm) ==
    LET location1 == "[" \o MemoryEquation(rm) \o "]"
        location2 == RegisterName(reg, wideBit)
        destName == IF destinationBit = 1 THEN location2 ELSE location1
        srcName == IF destinationBit = 1 THEN location1 ELSE location2
    IN  Resolved(MovLine(destName, srcName), 2)

\* MemoryMode8BitDisplace with the displacement byte sign-extended
MemoryMode8BitDisplace_SignExtended(destinationBit, wideBit, reg, rm) ==
    IF ~InRange(Pointer + 2) THEN Faulted(Pointer + 2)
    ELSE
    LET data == IF At(Pointer + 2) >= 128
                THEN At(Pointer + 2) - 256
                ELSE At(Pointer + 2)
        location1 == "[" \o MemoryEquation(rm) \o " + "
                         \o FormatDecimal(data) \o "]"
        location2 == RegisterName(reg, wideBit)
        destName == IF destinationBit = 1 THEN location2 ELSE location1
        srcName == IF destinationBit = 1 THEN location1 ELSE location2
    IN  Resolved(MovLine(destName, srcName), 3)

MemoryMode8BitDisplace(destinationBit, wideBit, reg, rm) ==
    IF ~InRange(Pointer + 2) THEN Faulted(Pointer + 2)
    ELSE
    LET data == BigEndianUint16(0, At(Pointer + 2))
        location1 == "[" \o MemoryEquation(rm) \o " + "
                         \o FormatDecimal(data) \o "]"
        location2 == RegisterName(reg, wideBit)
        destName == IF destinationBit = 1 THEN location2 ELSE location1
        srcName == IF destinationBit = 1 THEN location1 ELSE location2
    IN  Resolved(MovLine(destName, srcName), 3)

MemoryMode16BitDisplace(destinationBit, wideBit, reg, rm) ==
    IF ~InRange(Pointer + 3) THEN Faulted(Pointer + 3)
    ELSE IF ~InRange(Pointer + 2) THEN Faulted(Pointer + 2)
    ELSE
    LET data == BigEndianUint16(At(Pointer + 3), At(Pointer + 2))
        location1 == "[" \o MemoryEquation(rm) \o " + "
                         \o FormatDecimal(data) \o "]"
        location2 == RegisterName(reg, wideBit)
        destName == IF destinationBit = 1 THEN location2 ELSE location1
        srcName == IF destinationBit = 1 THEN location1 ELSE location2
    IN  Resolved(MovLine(destName, srcName), 4)

\* RegisterMode with the direction bit read the other way round
RegisterMode_Swapped(destinationBit, wideBit, reg, rm) ==
    LET destRegName == IF destinationBit = 1
                       THEN RegisterName(rm, wideBit)
                       ELSE RegisterName(reg, wideBit)
        srcRegName == IF destinationBit = 1
                      THEN RegisterName(reg, wideBit)
                      ELSE RegisterName(rm, wideBit)
    IN  Resolved(MovLine(destRegName, srcRegName), 2)

RegisterMode(destinationBit, wideBit, reg, rm) ==
    LET destRegName == IF destinationBit = 1
                       THEN RegisterName(reg, wideBit)
                       ELSE RegisterName(rm, wideBit)
        srcRegName == IF destinationBit = 1
                      THEN RegisterName(rm, wideBit)
                      ELSE RegisterName(reg, wideBit)
    IN  Resolved(MovLine(destRegName, srcRegName), 2)

(***************************************************************************)
(* Decode and the state functions.                                         *)
(***************************************************************************)
Init ==
    /\ Data \in Buffers
    /\ Pointer = 0
    /\ DecodedInstructions = <<>>
    /\ state = "InitialState"
    /\ err = NilErr
    /\ pc = "loop"
    /\ panicValue = NilErr
    /\ calls = <<>>

\* Returns without the check of err: Decode never panics on an error
Returns_ErrorIgnored(next, e) ==
    /\ state' = next
    /\ err' = e
    /\ panicValue' = NilErr
    /\ pc' = IF next = "nil" THEN "returned" ELSE "loop"

\* the state function returned (next, e): Decode assigns both, panics on
\* an error and leaves the loop on a nil state
Returns(next, e) ==
    /\ state' = next
    /\ err' = e
    /\ panicValue' = e
    /\ pc' = IF e # NilErr THEN "panicked"
             ELSE IF next = "nil" THEN "returned"
             ELSE "loop"

\* the state function panicked at run time: Decode assigned nothing
Panics(fault) ==
    /\ panicValue' = fault
    /\ pc' = "panicked"
    /\ UNCHANGED <<state, err>>

\* InitialState without the two checks of bytesLeft
InitialState_NoLengthChecks ==
    /\ pc = "loop"
    /\ state = "InitialState"
    /\ IF ~InRange(Pointer) THEN Panics(IndexOutOfRange(Pointer))
       ELSE
       LET nextByte == At(Pointer) IN
       IF BitXor(Shr(nextByte, 2), 34) = 0
       THEN Returns("RegAndRegOrMemState", NilErr)
       ELSE IF BitXor(Shr(nextByte, 4), 11) = 0
       THEN Returns("ImmediateToRegisterMovState", NilErr)
       ELSE Returns("nil", UnknownOpcodeErr(nextByte))
    /\ UNCHANGED <<Data, Pointer, DecodedInstructions, calls>>

\* InitialState with the immediate class read off the top 5 bits
InitialState_ShiftThree ==
    /\ pc = "loop"
    /\ state = "InitialState"
    /\ LET bytesLeft == Len(Data) - Pointer IN
       IF bytesLeft = 0 THEN Returns("nil", NilErr)
       ELSE IF bytesLeft = 1 THEN Returns("nil", TrailingByteErr)
       ELSE IF ~InRange(Pointer) THEN Panics(IndexOutOfRange(Pointer))
       ELSE
       LET nextByte == At(Pointer) IN
       IF BitXor(Shr(nextByte, 2), 34) = 0
       THEN Returns("RegAndRegOrMemState", NilErr)
       ELSE IF BitXor(Shr(nextByte, 3), 11) = 0
       THEN Returns("ImmediateToRegisterMovState", NilErr)
       ELSE Returns("nil", UnknownOpcodeErr(nextByte))
    /\ UNCHANGED <<Data, Pointer, DecodedInstructions, calls>>

\* InitialState that ends with success on a single trailing byte too
InitialState_TrailingIgnored ==
    /\ pc = "loop"
    /\ state = "InitialState"
    /\ LET bytesLeft == Len(Data) - Pointer IN
       IF bytesLeft <= 1 THEN Returns("nil", NilErr)
       ELSE IF ~InRange(Pointer) THEN Panics(IndexOutOfRange(Pointer))
       ELSE
       LET nextByte == At(Pointer) IN
       IF BitXor(Shr(nextByte, 2), 34) = 0
       THEN Returns("RegAndRegOrMemState", NilErr)
       ELSE IF BitXor(Shr(nextByte, 4), 11) = 0
       THEN Returns("ImmediateToRegisterMovState", NilErr)
       ELSE Returns("nil", UnknownOpcodeErr(nextByte))
    /\ UNCHANGED <<Data, Pointer, DecodedInstructions, calls>>

InitialState ==
    /\ pc = "loop"
    /\ state = "InitialState"
    /\ LET bytesLeft == Len(Data) - Pointer IN
       IF bytesLeft = 0 THEN Returns("nil", NilErr)
       ELSE IF bytesLeft = 1 THEN Returns("nil", TrailingByteErr)
       ELSE IF ~InRange(Pointer) THEN Panics(IndexOutOfRange(Pointer))
       ELSE
       LET nextByte == At(Pointer) IN
       IF BitXor(Shr(nextByte, 2), 34) = 0
       THEN Returns("RegAndRegOrMemState", NilErr)
       ELSE IF BitXor(Shr(nextByte, 4), 11) = 0
       THEN Returns("ImmediateToRegisterMovState", NilErr)
       ELSE Returns("nil", UnknownOpcodeErr(nextByte))
    /\ UNCHANGED <<Data, Pointer, DecodedInstructions, calls>>

\* a resolver result r is stored into params; a fault ends the session
Apply(r, next) ==
    IF r.fault # NilErr
    THEN /\ Panics(r.fault)
         /\ UNCHANGED <<Pointer, DecodedInstructions>>
    ELSE /\ Pointer' = r.Pointer
         /\ DecodedInstructions' = r.DecodedInstructions
         /\ Returns(next, NilErr)

RegAndRegOrMemState ==
    /\ pc = "loop"
    /\ state = "RegAndRegOrMemState"
    /\ IF ~InRange(Pointer)
       THEN Apply(Faulted(Pointer), "nil")
       ELSE IF ~InRange(Pointer + 1)
       THEN Apply(Faulted(Pointer + 1), "nil")
       ELSE
       LET byte1 == At(Pointer)
           byte2 == At(Pointer + 1)
           destinationBit == DestinationBit(byte1)
           wideBit == WideBit(byte1)
           mode == Mode(byte2)
           reg == Reg(byte2)
           rm == Rm(byte2)
       IN  CASE mode = 0 ->
                  Apply(MemoryMode(destinationBit, wideBit, reg, rm),
                        "InitialState")
             [] mode = 1 ->
                  Apply(MemoryMode8BitDisplace(destinationBit, wideBit,
                                               reg, rm),
                        "InitialState")
             [] mode = 2 ->
                  Apply(MemoryMode16BitDisplace(destinationBit, wideBit,
                                                reg, rm),
                        "InitialState")
             [] mode = 3 ->
                  Apply(RegisterMode(destinationBit, wideBit, reg, rm),
                        "InitialState")
             [] OTHER ->
                  /\ Returns("nil", NilErr)
                  /\ UNCHANGED <<Pointer, DecodedInstructions>>
    /\ UNCHANGED <<Data, calls>>

ImmediateToRegisterMovState ==
    /\ pc = "loop"
    /\ state = "ImmediateToRegisterMovState"
    /\ IF ~InRange(Pointer)
       THEN Apply(Faulted(Pointer), "nil")
       ELSE
       LET byte1 == At(Pointer)
           wideBit == BitAnd(Shr(byte1, 3), 1)
           reg == BitAnd(Shr(byte1, 0), 7)
       IN  IF wideBit = 1
           THEN IF ~InRange(Pointer + 2)
                THEN Apply(Faulted(Pointer + 2), "nil")
                ELSE IF ~InRange(Pointer + 1)
                THEN Apply(Faulted(Pointer + 1), "nil")
                ELSE
                LET data == BigEndianUint16(At(Pointer + 2),
                                            At(Pointer + 1))
                    destRegName == RegisterName(reg, wideBit)
                IN  Apply(Resolved("mov " \o destRegName \o ", "
                                       \o FormatDecimal(data), 3),
                          "InitialState")
           ELSE IF ~InRange(Pointer + 1)
                THEN Apply(Faulted(Pointer + 1), "nil")
                ELSE
                LET data == BigEndianUint16(0, At(Pointer + 1))
                    destRegName == RegisterName(reg, wideBit)
                IN  Apply(Resolved("mov " \o destRegName \o ", "
                                       \o FormatDecimal(data), 2),
                          "InitialState")
    /\ UNCHANGED <<Data, calls>>

Next ==
    \/ InitialState
    \/ RegAndRegOrMemState
    \/ ImmediateToRegisterMovState

Spec == Init /\ [][Next]_vars

\* Decode runs its loop without suspension: an enabled iteration is taken
FairSpec == Spec /\ WF_vars(Next)

(***************************************************************************)
(* A caller that decodes a buffer A, then, if that succeeded, a buffer B, *)
(* then A followed by B: three calls of Decode, one after the other.      *)
(***************************************************************************)
\* the first statements of Decode(input)
Call(input) ==
    /\ Data' = input
    /\ Pointer' = 0
    /\ DecodedInstructions' = <<>>
    /\ state' = "InitialState"
    /\ err' = NilErr
    /\ pc' = "loop"
    /\ panicValue' = NilErr

\* what the caller keeps of the call that ended: its input, whether it
\* returned or panicked, the panic value, and the lines params held
Ended ==
    [input |-> Data, pc |-> pc, panicValue |-> panicValue,
     lines |-> DecodedInstructions]

InitJoin ==
    /\ Data \in Parts
    /\ Pointer = 0
    /\ DecodedInstructions = <<>>
    /\ state = "InitialState"
    /\ err = NilErr
    /\ pc = "loop"
    /\ panicValue = NilErr
    /\ calls = <<>>

\* Decode(A) returned: the caller calls Decode(B)
DecodeSecond ==
    /\ pc = "returned"
    /\ calls = <<>>
    /\ calls' = <<Ended>>
    /\ \E B \in Parts : Call(B)

\* Decode(B) ended: the caller calls Decode(A followed by B)
DecodeJoined ==
    /\ pc # "loop"
    /\ Len(calls) = 1
    /\ calls' = Append(calls, Ended)
    /\ Call(calls[1].input \o Data)

NextJoin ==
    \/ InitialState
    \/ RegAndRegOrMemState
    \/ ImmediateToRegisterMovState
    \/ DecodeSecond
    \/ DecodeJoined

JoinSpec == InitJoin /\ [][NextJoin]_vars

(***************************************************************************)
(* Vocabulary of the properties: the fields of the instruction at the      *)
(* cursor, read off the byte layout                                        *)
(*   byte 1 |Opcode     |D|W|   byte 2 |MOD|REG  |R/M  |                   *)
(*   byte 1 |1|0|1|1|W|REG  |   (immediate to register)                    *)
(***************************************************************************)
BytesLeft == Len(Data) - Pointer

Resolvers == {"RegAndRegOrMemState", "ImmediateToRegisterMovState"}

IsRegMemMove(b) == b \div 4 = 34

IsImmediateMove(b) == b \div 16 = 11

DirectionOf(b1) == (b1 \div 2) % 2

WidthOf(b1) == b1 % 2

ModeOf(b2) == b2 \div 64

RegOf(b2) == (b2 \div 8) % 8

RmOf(b2) == b2 % 8

ImmWidthOf(b1) == (b1 \div 8) % 2

ImmRegOf(b1) == b1 % 8

\* byte length of a register/memory move of the given mode
ModeLength(mode) ==
    CASE mode = 0 -> 2 [] mode = 1 -> 3 [] mode = 2 -> 4 [] mode = 3 -> 2

\* bytes needed by the instruction selected at the cursor; 0 when none is
\* selected (no byte left, or an unknown opcode)
BytesNeeded ==
    IF BytesLeft <= 0 THEN 0
    ELSE IF IsRegMemMove(At(Pointer))
    THEN IF BytesLeft = 1 THEN 2 ELSE ModeLength(ModeOf(At(Pointer + 1)))
    ELSE IF IsImmediateMove(At(Pointer))
    THEN 2 + ImmWidthOf(At(Pointer))
    ELSE 0

\* the session has ended: Decode returned, or panicked (with the error of
\* a state function, or with a run-time index error)
Terminal == pc # "loop"

\* the number of resolvers dispatched so far: every line was appended by
\* one, and a session that is in a resolver, or ended in one, has
\* dispatched one more
Dispatched ==
    Len(DecodedInstructions) + (IF state \in Resolvers THEN 1 ELSE 0)

(***************************************************************************)
(* Properties.                                                             *)
(***************************************************************************)
\* C1: a session that ended with fewer bytes left than the instruction at
\* the cursor needs ended in the descriptive truncation error (and so no
\* resolver read Data at an index >= len(Data)).
C1_TruncationIsDescriptiveError ==
    (Terminal /\ BytesNeeded > BytesLeft)
        => (pc = "panicked" /\ err = TrailingByteErr
            /\ panicValue = TrailingByteErr)

\* C2 as stated: decoding [10001011, 00000000] yields the single line
\* "mov al, [bx + si]" and no error.
C2_AsStated ==
    (Data = <<139, 0>> /\ Terminal)
        => (pc = "returned" /\ err = NilErr
            /\ DecodedInstructions = <<"mov al, [bx + si]">>)

\* C2 amended: decoding [10001011, 00000000] (d = 1, w = 1) yields the
\* single line "mov ax, [bx + si]" and no error.
C2_MovAxBxSi ==
    (Data = <<139, 0>> /\ Terminal)
        => (pc = "returned" /\ err = NilErr /\ panicValue = NilErr
            /\ DecodedInstructions = <<"mov ax, [bx + si]">>)

C2_Witness == Data = <<139, 0>> /\ pc = "returned"

\* C3: every session terminates; every step of a resolver advances the
\* cursor by at least 2 or ends the session, every step of InitialState
\* dispatches a resolver or ends the session, and at most len(Data)/2
\* resolvers are ever dispatched.
C3_Terminates ==
    /\ <>Terminal
    /\ [](Dispatched <= Len(Data) \div 2)
    /\ [][/\ state \in Resolvers => (Pointer' >= Pointer + 2 \/ Terminal')
          /\ state = "InitialState" => (state' \in Resolvers \/ Terminal')]_vars

C3_Witness == pc = "returned" /\ Len(DecodedInstructions) = 2 /\ Pointer = 5

\* C4: 0 <= Pointer <= len(Data) in every state, and no step decreases
\* Pointer.
C4_PointerInBounds ==
    /\ [](0 <= Pointer /\ Pointer <= Len(Data))
    /\ [][Pointer' >= Pointer]_vars

C4_Witness == Pointer = Len(Data) /\ Pointer = 4 /\ Len(DecodedInstructions) = 1

\* C5: a step of InitialState with exactly one byte left ends the session
\* in the "Trailing byte found" error, whatever the byte and whatever was
\* decoded before; a one-byte buffer ends with no output line.
C5_TrailingByte ==
    /\ [][(state = "InitialState" /\ BytesLeft = 1)
            => (pc' = "panicked" /\ err' = TrailingByteErr
                /\ panicValue' = TrailingByteErr
                /\ UNCHANGED <<Pointer, DecodedInstructions>>)]_vars
    /\ [](Len(Data) = 1 /\ Terminal
            => (panicValue = TrailingByteErr /\ DecodedInstructions = <<>>))

C5_Witness ==
    /\ pc = "panicked"
    /\ panicValue = TrailingByteErr
    /\ BytesLeft = 1
    /\ Len(DecodedInstructions) = 2

\* C6: a step of InitialState with at least two bytes left and a byte at
\* the cursor of neither opcode class ends the session in the "Unknown
\* opcode" error that carries that byte, appends no line and leaves the
\* cursor; an ended session takes no further step.
C6_UnknownOpcode ==
    /\ [][(/\ state = "InitialState"
           /\ BytesLeft >= 2
           /\ ~IsRegMemMove(At(Pointer))
           /\ ~IsImmediateMove(At(Pointer)))
            => (/\ pc' = "panicked"
                /\ err' = "Unknown opcode: " \o FormatBinary(At(Pointer))
                /\ panicValue' = err'
                /\ UNCHANGED <<Pointer, DecodedInstructions>>)]_vars
    /\ [][pc = "loop"]_vars

C6_Witness ==
    /\ pc = "panicked"
    /\ panicValue = "Unknown opcode: 1000110"
    /\ Len(DecodedInstructions) = 1
    /\ BytesLeft = 3

\* C7: the first step on an empty buffer ends the session with success:
\* Decode returns the empty output sequence and there is no error.
C7_EmptyBuffer ==
    /\ [][Data = <<>>
            => (/\ pc' = "returned"
                /\ state' = "nil"
                /\ err' = NilErr
                /\ panicValue' = NilErr
                /\ DecodedInstructions' = <<>>)]_vars
    /\ [](Data = <<>> /\ Terminal => pc = "returned")

C7_Witness == Data = <<>> /\ pc = "returned" /\ DecodedInstructions = <<>>

\* C8: a step that decodes a register/memory move advances the cursor by
\* exactly 2, 3, 4, 2 bytes for mode 00, 01, 10, 11, whatever the other
\* fields are.
C8_ModeLength ==
    [][(state = "RegAndRegOrMemState"
        /\ DecodedInstructions' # DecodedInstructions)
        => Pointer' = Pointer + ModeLength(ModeOf(At(Pointer + 1)))]_vars

C8_Witness ==
    /\ Len(Data) = 4
    /\ IsRegMemMove(Data[1])
    /\ ModeOf(Data[2]) = 0
    /\ RmOf(Data[2]) = 6
    /\ Len(DecodedInstructions) = 1
    /\ Pointer = 2

\* C9: a step that decodes an immediate-to-register move with width bit w
\* = bit 3 and register id = bits 2-0 appends "mov <reg>, <value>" where
\* <reg> is the register-table entry for (register id, w) and <value> is
\* the decimal of byte[p+1] + 256*byte[p+2] (3 bytes consumed) if w = 1
\* and of byte[p+1] (2 bytes consumed) if w = 0; [10111000, 1, 0] decodes
\* to "mov ax, 1".
C9_Immediate ==
    /\ [][(state = "ImmediateToRegisterMovState"
           /\ DecodedInstructions' # DecodedInstructions)
            => LET b == At(Pointer)
                   w == ImmWidthOf(b)
                   value == IF w = 1
                            THEN At(Pointer + 1) + 256 * At(Pointer + 2)
                            ELSE At(Pointer + 1)
               IN  /\ value \in 0..(IF w = 1 THEN 65535 ELSE 255)
                   /\ Pointer' = Pointer + (IF w = 1 THEN 3 ELSE 2)
                   /\ DecodedInstructions' =
                        Append(DecodedInstructions,
                               "mov " \o RegisterNames[ImmRegOf(b)][w]
                                      \o ", " \o ToString(value))]_vars
    /\ [](Data = <<184, 1, 0>> /\ Terminal
            => (pc = "returned" /\ DecodedInstructions = <<"mov ax, 1">>))

C9_Witness ==
    /\ Data = <<184, 1, 7>>
    /\ pc = "returned"
    /\ DecodedInstructions = <<"mov ax, 1793">>

\* the r/m operand of the register/memory move at the cursor
RmOperand ==
    LET mode == ModeOf(At(Pointer + 1))
        rm == RmOf(At(Pointer + 1))
    IN  CASE mode = 0 -> "[" \o MemoryEquations[rm] \o "]"
          [] mode = 1 -> "[" \o MemoryEquations[rm] \o " + "
                             \o ToString(At(Pointer + 2)) \o "]"
          [] mode = 2 -> "[" \o MemoryEquations[rm] \o " + "
                             \o ToString(At(Pointer + 2)
                                         + 256 * At(Pointer + 3)) \o "]"
          [] mode = 3 -> RegisterNames[rm][WidthOf(At(Pointer))]

\* the register operand of the register/memory move at the cursor
RegOperand == RegisterNames[RegOf(At(Pointer + 1))][WidthOf(At(Pointer))]

\* C10: a step that decodes a register/memory move, in any mode, appends
\* "mov <reg operand>, <r/m operand>" when the direction bit is 1 and
\* "mov <r/m operand>, <reg operand>" when it is 0; [10001001, 11011001]
\* decodes to "mov cx, bx".
C10_OperandOrder ==
    /\ [][(state = "RegAndRegOrMemState"
           /\ DecodedInstructions' # DecodedInstructions)
            => DecodedInstructions' =
                 Append(DecodedInstructions,
                        IF DirectionOf(At(Pointer)) = 1
                        THEN "mov " \o RegOperand \o ", " \o RmOperand
                        ELSE "mov " \o RmOperand \o ", " \o RegOperand)]_vars
    /\ [](Data = <<137, 217>> /\ Terminal
            => (pc = "returned" /\ DecodedInstructions = <<"mov cx, bx">>))

C10_Witness ==
    /\ Data = <<137, 217>>
    /\ pc = "returned"
    /\ DecodedInstructions = <<"mov cx, bx">>

\* the two bytes of a register/memory move, by the documented layout
\*   byte 1 |Opcode     |D|W|   byte 2 |MOD|REG  |R/M  |
EncodeRegMemMove(opcode, d, w, mode, reg, rm) ==
    <<opcode * 4 + d * 2 + w, mode * 64 + reg * 8 + rm>>

\* the fields RegAndRegOrMemState extracts from two header bytes
ExtractedFields(b1, b2) ==
    [d |-> DestinationBit(b1), w |-> WideBit(b1), mode |-> Mode(b2),
     reg |-> Reg(b2), rm |-> Rm(b2)]

\* C11: round trip over the field set of the register-to-register move.
\* Whenever RegAndRegOrMemState is about to decode a mode-11 header,
\* re-encoding the fields it extracts yields the two header bytes again;
\* and for all d, w in {0,1} and reg, rm in 0..7 the encoding of (100010,
\* d, w, 11, reg, rm) is classified as a register/memory move and the
\* extraction returns (d, w, 11, reg, rm).
C11_RoundTrip ==
    (pc = "loop" /\ state = "RegAndRegOrMemState"
     /\ ModeOf(At(Pointer + 1)) = 3)
        => /\ LET f == ExtractedFields(At(Pointer), At(Pointer + 1))
              IN  EncodeRegMemMove(34, f.d, f.w, f.mode, f.reg, f.rm)
                    = <<At(Pointer), At(Pointer + 1)>>
           /\ \A d \in 0..1, w \in 0..1, reg \in 0..7, rm \in 0..7 :
                LET b == EncodeRegMemMove(34, d, w, 3, reg, rm)
                IN  /\ BitXor(Shr(b[1], 2), 34) = 0
                    /\ ExtractedFields(b[1], b[2])
                         = [d |-> d, w |-> w, mode |-> 3,
                            reg |-> reg, rm |-> rm]

C11_Witness ==
    /\ pc = "loop"
    /\ state = "RegAndRegOrMemState"
    /\ At(Pointer) = 138
    /\ At(Pointer + 1) = 254

\* C12: a step that fails (a state function returned an error: trailing
\* byte or unknown opcode) appends no line and leaves the decoded lines
\* and the cursor as they were, and Decode panics with that error instead
\* of returning the output; a session that failed has not returned.
C12_FailureKeepsState ==
    /\ [][err' # NilErr
            => (/\ err' \in {TrailingByteErr, UnknownOpcodeErr(At(Pointer))}
                /\ UNCHANGED <<Pointer, DecodedInstructions, Data>>
                /\ pc' = "panicked"
                /\ panicValue' = err')]_vars
    /\ [](err # NilErr => pc = "panicked")

C12_Witness ==
    /\ pc = "panicked"
    /\ err = UnknownOpcodeErr(70)
    /\ DecodedInstructions = <<"mov ax, 0">>
    /\ Pointer = 3

\* C13 as stated: every step of a dispatched resolver appends exactly one
\* line at the end of DecodedInstructions, a step of InitialState appends
\* none, the output before a step is a prefix of the output after it, and
\* a session that ended has as many lines as resolvers were dispatched.
C13_AppendOnly ==
    /\ [][/\ state \in Resolvers
             => /\ Len(DecodedInstructions') = Len(DecodedInstructions) + 1
                /\ SubSeq(DecodedInstructions', 1, Len(DecodedInstructions))
                     = DecodedInstructions
          /\ state = "InitialState"
             => DecodedInstructions' = DecodedInstructions]_vars
    /\ [](Terminal => Len(DecodedInstructions) = Dispatched)

\* the displacement part of the memory operand of the register/memory
\* move at the cursor
DisplacementPart ==
    LET mode == ModeOf(At(Pointer + 1))
    IN  CASE mode = 0 -> ""
          [] mode = 1 -> " + " \o ToString(At(Pointer + 2))
          [] mode = 2 -> " + " \o ToString(At(Pointer + 2)
                                           + 256 * At(Pointer + 3))

\* C14: a step that decodes a register/memory move of a memory mode
\* renders the memory operand as "[<addressing>]" in mode 00 and as
\* "[<addressing> + <displacement>]" in modes 01 and 10, where the
\* displacement is the decimal of byte[p+2] (0..255, never negative) in
\* mode 01 and of byte[p+2] + 256*byte[p+3] (0..65535) in mode 10, a
\* displacement of 0 included.
C14_Displacement ==
    [][(state = "RegAndRegOrMemState"
        /\ DecodedInstructions' # DecodedInstructions
        /\ ModeOf(At(Pointer + 1)) # 3)
        => LET memory == "[" \o MemoryEquations[RmOf(At(Pointer + 1))]
                             \o DisplacementPart \o "]"
               line == DecodedInstructions'[Len(DecodedInstructions')]
           IN  line \in {"mov " \o RegOperand \o ", " \o memory,
                         "mov " \o memory \o ", " \o RegOperand}]_vars

C14_Witness ==
    /\ Data = <<139, 70, 217>>
    /\ DecodedInstructions = <<"mov ax, [bp + 217]">>

\* C15: a step of InitialState with at least two bytes left takes exactly
\* one of three outcomes, decided by the byte at the cursor: top 6 bits
\* 100010 dispatches RegAndRegOrMemState, top 4 bits 1011 dispatches
\* ImmediateToRegisterMovState, any other byte is the unknown-opcode
\* error; no byte is of both classes; the step changes neither the cursor
\* nor the output.
C15_Classification ==
    [][(state = "InitialState" /\ BytesLeft >= 2)
        => LET b == At(Pointer)
               toRegMem == pc' = "loop" /\ state' = "RegAndRegOrMemState"
                           /\ err' = NilErr
               toImmediate == pc' = "loop"
                              /\ state' = "ImmediateToRegisterMovState"
                              /\ err' = NilErr
               toError == pc' = "panicked" /\ state' = "nil"
                          /\ err' = UnknownOpcodeErr(b)
           IN  /\ ~(IsRegMemMove(b) /\ IsImmediateMove(b))
               /\ toRegMem <=> IsRegMemMove(b)
               /\ toImmediate <=> IsImmediateMove(b)
               /\ toError <=> (~IsRegMemMove(b) /\ ~IsImmediateMove(b))
               /\ UNCHANGED <<Pointer, DecodedInstructions, Data>>]_vars

C15_Witness ==
    /\ pc = "loop"
    /\ state = "ImmediateToRegisterMovState"
    /\ At(Pointer) = 191
    /\ DecodedInstructions = <<>>

\* C16: a step that decodes a register/memory move of mode 00 with r/m
\* id 6 renders the memory operand as "[bp]", consumes exactly 2 bytes
\* and hands over to InitialState, so that the bytes that follow are
\* decoded as the next instruction.
C16_ModeZeroRmSix ==
    [][(state = "RegAndRegOrMemState"
        /\ ModeOf(At(Pointer + 1)) = 0
        /\ RmOf(At(Pointer + 1)) = 6)
        => /\ DecodedInstructions' =
                Append(DecodedInstructions,
                       IF DirectionOf(At(Pointer)) = 1
                       THEN "mov " \o RegOperand \o ", [bp]"
                       ELSE "mov [bp], " \o RegOperand)
           /\ Pointer' = Pointer + 2
           /\ pc' = "loop"
           /\ state' = "InitialState"]_vars

C16_Witness ==
    /\ Data = <<139, 6, 176, 7>>
    /\ pc = "returned"
    /\ DecodedInstructions = <<"mov ax, [bp]", "mov al, 7">>

\* C17: whatever byte is at the cursor, the fields extracted from it as a
\* first or as a second header byte are in range: direction and width in
\* 0..1, mode in 0..3, register id and r/m id in 0..7; so the register
\* table has an entry for (register id, width) and (r/m id, width) and
\* the addressing table one for the r/m id; and no step of
\* RegAndRegOrMemState takes the default branch of the mode switch, which
\* would end the session with success.
C17_FieldsInRange ==
    /\ [](BytesLeft >= 1
            => LET b == At(Pointer) IN
               /\ DestinationBit(b) \in 0..1
               /\ WideBit(b) \in 0..1
               /\ Mode(b) \in 0..3
               /\ Reg(b) \in 0..7
               /\ Rm(b) \in 0..7
               /\ Reg(b) \in DOMAIN RegisterNames
               /\ Rm(b) \in DOMAIN RegisterNames
               /\ WideBit(b) \in DOMAIN RegisterNames[Reg(b)]
               /\ WideBit(b) \in DOMAIN RegisterNames[Rm(b)]
               /\ Rm(b) \in DOMAIN MemoryEquations)
    /\ [][state = "RegAndRegOrMemState"
            => (pc' # "returned" /\ state' # "nil"
                /\ (pc' = "loop"
                      => DecodedInstructions' # DecodedInstructions))]_vars

C17_Witness ==
    /\ Data = <<139, 255>>
    /\ pc = "returned"
    /\ DecodedInstructions = <<"mov di, di">>

\* byte length of the instruction that starts at index i of Data, read
\* off the byte layout
LengthAt(i) ==
    IF IsRegMemMove(At(i)) /\ i + 1 < Len(Data)
    THEN ModeLength(ModeOf(At(i + 1)))
    ELSE IF IsImmediateMove(At(i)) THEN 2 + ImmWidthOf(At(i))
    ELSE 1

RECURSIVE EndOfInstructions(_, _)
\* the index after the k instructions that start at index i of Data
EndOfInstructions(i, k) ==
    IF k = 0 \/ i >= Len(Data) THEN i
    ELSE EndOfInstructions(i + LengthAt(i), k - 1)

\* C18: Decode returns only with Pointer = len(Data) and no error, and
\* then the byte lengths of the decoded instructions, one per line, sum
\* to len(Data).
C18_SuccessConsumesAll ==
    pc = "returned"
        => /\ Pointer = Len(Data)
           /\ err = NilErr
           /\ panicValue = NilErr
           /\ EndOfInstructions(0, Len(DecodedInstructions)) = Len(Data)
           /\ \A k \in 0..(Len(DecodedInstructions) - 1) :
                EndOfInstructions(0, k) < Len(Data)

C18_Witness ==
    /\ pc = "returned"
    /\ Len(Data) = 5
    /\ Len(DecodedInstructions) = 2

\* C19 as stated: when Decode(A) returned lines LA, then for every B the
\* call Decode(A followed by B) ends as Decode(B) ended: if Decode(B)
\* returned LB it returns LA followed by LB, and if Decode(B) panicked it
\* panics with the same error.
C19_Compositional ==
    (Len(calls) = 2 /\ pc # "loop")
        => IF calls[2].pc = "returned"
           THEN /\ pc = "returned"
                /\ DecodedInstructions = calls[1].lines \o calls[2].lines
           ELSE /\ pc = "panicked"
                /\ panicValue = calls[2].panicValue

TypeOK ==
    /\ Data \in Buffers
    /\ Pointer \in 0..Len(Data)
    /\ state \in {"InitialState", "RegAndRegOrMemState",
                  "ImmediateToRegisterMovState", "nil"}
    /\ pc \in {"loop", "returned", "panicked"}

====
